---- MODULE Spec2Model ----
(***************************************************************************)
(* Model of the Mangi meta trend oscillator (src/main.py).                 *)
(*                                                                         *)
(* Floats are modelled in fixed point, every quantity at a stated          *)
(* resolution and every division rounded to the nearest unit:              *)
(*   series elements, values, bands  0.01    ("centi")                     *)
(*   phases                          0.0001 rad                            *)
(*   tan(phase), the ratio rs        0.001                                 *)
(*   arguments/results of atan       0.0000001                             *)
(* Inputs are finite numbers (no NaN, no infinities).                      *)
(***************************************************************************)
EXTENDS Integers, Sequences, FiniteSets, TLC

VARIABLES state, prev_value, history, call

vars == <<state, prev_value, history, call>>

----------------------------------------------------------------------------
(* Bounds of the model *)

\* non-empty updates per behaviour of Spec
MaxEpoch == 2
\* input series are at most KAPPA_PERIOD + MaxExtra long
MaxExtra == 0
\* non-empty updates per behaviour of SpecPhase (the phase wraps at the 16th)
MaxPhaseEpoch == 17
\* longest input of SpecSmooth
MaxLen == 4
\* largest window of SpecSmooth
MaxWindow == 5

----------------------------------------------------------------------------
(* Module constants of src/main.py *)

\* 87.3, centi
UPPER_BAND == 8730
\* 12.7, centi
LOWER_BAND == 1270
KAPPA_PERIOD == 14
VEXEL_SMOOTHING == 3
\* 0.4128 rad, in 0.0001 rad
PHASE_OFFSET_RAD == 4128
\* 0.0671, in 0.0001
CONVERGENCE_FACTOR == 671
\* 0.62, in 0.01
DOMINANT_WEIGHT == 62
\* 0.38, in 0.01
SECONDARY_WEIGHT == 38
SEED_NORMALIZER == 1000
\* 0.0044, in 0.0001
CROSSOVER_THRESHOLD == 44
\* the literal 50.0 (default value, default previous value, neutral component), centi
NEUTRAL == 5000
\* 2 * math.pi = 6.2832 rad, in 0.0001 rad
TWO_PI == 62832
\* math.pi, in 0.000001
PI_E6 == 3141593

\* OscillatorConfig(): every field at its default
Config ==
  [ upper       |-> UPPER_BAND,
    lower       |-> LOWER_BAND,
    period      |-> KAPPA_PERIOD,
    smooth      |-> VEXEL_SMOOTHING,
    phase_rad   |-> PHASE_OFFSET_RAD,
    conv_factor |-> CONVERGENCE_FACTOR,
    dom_weight  |-> DOMINANT_WEIGHT,
    sec_weight  |-> SECONDARY_WEIGHT ]

\* TrendState(): every field at its default
TrendState ==
  [ value |-> NEUTRAL, phase |-> 0, momentum |-> 0, crossover_signal |-> 0, epoch |-> 0 ]

----------------------------------------------------------------------------
(* Arithmetic *)

Max(a, b) == IF a >= b THEN a ELSE b

Min(a, b) == IF a <= b THEN a ELSE b

Abs(a) == IF a >= 0 THEN a ELSE -a

\* a / b for b > 0, rounded to the nearest unit
RDiv(a, b) == (a + (b \div 2)) \div b

RECURSIVE Sum(_)
Sum(s) == IF s = <<>> THEN 0 ELSE Head(s) + Sum(Tail(s))

SeqMax(s) == CHOOSE x \in {s[i] : i \in DOMAIN s} : \A j \in DOMAIN s : x >= s[j]

SeqMin(s) == CHOOSE x \in {s[i] : i \in DOMAIN s} : \A j \in DOMAIN s : x <= s[j]

\* series[-n:]
LastN(s, n) == IF Len(s) <= n THEN s ELSE SubSeq(s, Len(s) - n + 1, Len(s))

\* math.tan, in 0.001. update only ever passes config.phase_rad, 0.4128; the
\* other entries are the phases the state holds over its first three updates:
\* tan(0) = 0, tan(0.4128) = 0.438, tan(0.8256) = 1.083, tan(1.2384) = 2.898
Tan(phase) ==
  CASE phase = 0 -> 0
    [] phase = PHASE_OFFSET_RAD -> 438
    [] phase = 2 * PHASE_OFFSET_RAD -> 1083
    [] phase = 3 * PHASE_OFFSET_RAD -> 2898

\* math.atan for |x| <= 0.0671, x and the result in 0.0000001:
\* x - x^3/3 (the next term, x^5/5, is below 3 units)
Atan(x) ==
  LET x4 == Abs(x) \div 1000
      cube == ((x4 * x4 * x4) \div 3) \div 100000
  IN IF x >= 0 THEN x - cube ELSE x + cube

----------------------------------------------------------------------------
(* MangiMeta: the pure parts *)

Clamp(x) == Max(Config.lower, Min(Config.upper, x))

SmoothSeriesDivN(series, n) ==
  IF n < 1 \/ Len(series) < n THEN series
  ELSE [ i \in 1..Len(series) |->
           LET start == Max(1, i - n + 1)
               window == SubSeq(series, start, i)
           IN RDiv(Sum(window), n) ]

SmoothSeries(series, n) ==
  IF n < 1 \/ Len(series) < n THEN series
  ELSE [ i \in 1..Len(series) |->
           LET start == Max(1, i - n + 1)
               window == SubSeq(series, start, i)
           IN RDiv(Sum(window), Len(window)) ]

Gain(recent) == Sum([ i \in 1..(Len(recent) - 1) |-> Max(0, recent[i + 1] - recent[i]) ])

Loss(recent) == Sum([ i \in 1..(Len(recent) - 1) |-> Max(0, recent[i] - recent[i + 1]) ])

KappaComponent(series, phase) ==
  IF Len(series) < Config.period THEN NEUTRAL
  ELSE LET recent == LastN(series, Config.period)
           gain == Gain(recent)
           loss == Loss(recent)
           raw == gain * 1000 - loss * Tan(phase)
           denom == gain * 1000 + loss * Tan(phase)
       IN IF denom = 0
          THEN \* raw / 1e-12: zero, or large enough for atan to reach +-pi/2
               IF raw = 0 THEN NEUTRAL ELSE IF raw > 0 THEN 2 * NEUTRAL ELSE 0
          ELSE LET rs == RDiv(raw * 1000, denom)
               IN NEUTRAL + RDiv(Atan(rs * Config.conv_factor) * 1000, PI_E6)

VexelComponentNoGuard(series) ==
  LET window == LastN(series, Config.period)
      high == SeqMax(window)
      low == SeqMin(window)
      span == high - low
      last == window[Len(window)]
  IN IF span = 0 THEN Config.lower
     ELSE Config.lower + RDiv((last - low) * (Config.upper - Config.lower), span)

VexelComponent(series) ==
  IF Len(series) < Config.period THEN NEUTRAL
  ELSE LET window == LastN(series, Config.period)
           high == SeqMax(window)
           low == SeqMin(window)
           span == high - low
           last == window[Len(window)]
       IN IF span = 0
          THEN \* (last - low) / 1e-12 with last = low
               Config.lower
          ELSE Config.lower + RDiv((last - low) * (Config.upper - Config.lower), span)

\* the blend with kappa given the engine's running phase
NewValueOfRunningPhase(st, series) ==
  LET smoothed == SmoothSeries(series, Config.smooth)
      kappa == KappaComponent(smoothed, st.phase)
      vexel == VexelComponent(smoothed)
      combined == RDiv(Config.dom_weight * kappa + Config.sec_weight * vexel, 100)
  IN Clamp(combined)

\* lines 109-117 of update: the clamped blend
NewValue(st, series) ==
  LET smoothed == SmoothSeries(series, Config.smooth)
      kappa == KappaComponent(smoothed, Config.phase_rad)
      vexel == VexelComponent(smoothed)
      combined == RDiv(Config.dom_weight * kappa + Config.sec_weight * vexel, 100)
  IN Clamp(combined)

\* lines 119-122 of update: the crossover signal of a change from pv to value
CrossoverNoNormalizer(value, pv) ==
  IF Abs(value - pv) * 100 >= CROSSOVER_THRESHOLD
  THEN IF value > pv THEN 1 ELSE -1
  ELSE 0

Crossover(value, pv) ==
  IF Abs(value - pv) * 100 >= CROSSOVER_THRESHOLD * SEED_NORMALIZER
  THEN IF value > pv THEN 1 ELSE -1
  ELSE 0

NextPhaseNoWrap(st) == st.phase + PHASE_OFFSET_RAD

\* line 124 of update
NextPhase(st) == (st.phase + PHASE_OFFSET_RAD) % TWO_PI

NextEpochStuck(st) == st.epoch

\* line 132 of update
NextEpoch(st) == st.epoch + 1

\* signal()
Signal(st) == st.crossover_signal

\* value()
Value(st) == st.value

InOverboughtOfLower(st) == st.value * 10 >= Config.lower * 10 - (UPPER_BAND - LOWER_BAND)

\* in_overbought(): value >= upper - (UPPER_BAND - LOWER_BAND) * 0.1
InOverbought(st) == st.value * 10 >= Config.upper * 10 - (UPPER_BAND - LOWER_BAND)

\* in_oversold(): value <= lower + (UPPER_BAND - LOWER_BAND) * 0.1
InOversold(st) == st.value * 10 <= Config.lower * 10 + (UPPER_BAND - LOWER_BAND)

----------------------------------------------------------------------------
(* MangiMeta: the engine *)

\* the call just made: its name, its arguments and what it returned
Called(op, arg, n, ret) == [ op |-> op, arg |-> arg, n |-> n, ret |-> ret ]

\* __init__
Init ==
  /\ state = TrendState
  /\ prev_value = NEUTRAL
  /\ history = <<>>
  /\ call = Called("__init__", <<>>, 0, TrendState)

\* update with the fields of the new state given in the wrong order
UpdateSwapped(series) ==
  IF series = <<>>
  THEN /\ call' = Called("update", series, 0, state)
       /\ UNCHANGED <<state, prev_value, history>>
  ELSE LET value == NewValue(state, series)
           momentum == value - prev_value
           crossover == Crossover(value, prev_value)
           phase == NextPhase(state)
           new == [ value |-> momentum, phase |-> phase, momentum |-> value,
                    crossover_signal |-> crossover, epoch |-> NextEpoch(state) ]
       IN /\ prev_value' = value
          /\ history' = Append(history, value)
          /\ state' = new
          /\ call' = Called("update", series, 0, new)

\* update without the early return on an empty series
UpdateNoEmptyCheck(series) ==
  LET value == NewValue(state, series)
      momentum == value - prev_value
      crossover == Crossover(value, prev_value)
      phase == NextPhase(state)
      new == [ value |-> value, phase |-> phase, momentum |-> momentum,
               crossover_signal |-> crossover, epoch |-> NextEpoch(state) ]
  IN /\ prev_value' = value
     /\ history' = Append(history, value)
     /\ state' = new
     /\ call' = Called("update", series, 0, new)

\* update that never replaces the previous-value tracker
UpdateStalePrev(series) ==
  IF series = <<>>
  THEN /\ call' = Called("update", series, 0, state)
       /\ UNCHANGED <<state, prev_value, history>>
  ELSE LET value == NewValue(state, series)
           momentum == value - prev_value
           crossover == Crossover(value, prev_value)
           phase == NextPhase(state)
           new == [ value |-> value, phase |-> phase, momentum |-> momentum,
                    crossover_signal |-> crossover, epoch |-> NextEpoch(state) ]
       IN /\ prev_value' = prev_value
          /\ history' = Append(history, value)
          /\ state' = new
          /\ call' = Called("update", series, 0, new)

\* update(series)
Update(series) ==
  IF series = <<>>
  THEN /\ call' = Called("update", series, 0, state)
       /\ UNCHANGED <<state, prev_value, history>>
  ELSE LET value == NewValue(state, series)
           momentum == value - prev_value
           crossover == Crossover(value, prev_value)
           phase == NextPhase(state)
           new == [ value |-> value, phase |-> phase, momentum |-> momentum,
                    crossover_signal |-> crossover, epoch |-> NextEpoch(state) ]
       IN /\ prev_value' = value
          /\ history' = Append(history, value)
          /\ state' = new
          /\ call' = Called("update", series, 0, new)

\* a call of one of the four queries
Query(op, ret) ==
  /\ call' = Called(op, <<>>, 0, ret)
  /\ UNCHANGED <<state, prev_value, history>>

\* a call of _smooth_series(series, n)
Smooth(series, n) ==
  /\ call' = Called("_smooth_series", series, n, SmoothSeries(series, n))
  /\ UNCHANGED <<state, prev_value, history>>

----------------------------------------------------------------------------
(* Inputs *)

\* the first ten points of DEMO_SERIES, centi
DEMO_SERIES ==
  << 10420, 10680, 10510, 10890, 10730, 11020, 10900, 11150, 11210, 11080 >>

Ramp(len, start, step) == [ i \in 1..len |-> start + step * (i - 1) ]

ZigZag(len, a, b) == [ i \in 1..len |-> IF i % 2 = 1 THEN a ELSE b ]

Lengths == (KAPPA_PERIOD - 1)..(KAPPA_PERIOD + MaxExtra)

\* a ramp whose last element is back at the start
Dip(len, start, step) ==
  [ i \in 1..len |-> IF i = len THEN start ELSE start + step * (i - 1) ]

InputSeries ==
  {<<>>, DEMO_SERIES, <<10420>>}
    \cup { Ramp(len, 10420, step) : len \in Lengths, step \in {-50, 0, 50} }
    \cup { ZigZag(len, a, 10680) : len \in Lengths, a \in {10420, 10890} }
    \cup { Dip(len, 10420, step) : len \in Lengths, step \in {-50, 50} }

PhaseInputs == {<<>>, <<10420>>, DEMO_SERIES}

SmoothInputs == UNION { [1..len -> {10420, 10510, 10680}] : len \in 0..MaxLen }

----------------------------------------------------------------------------
(* Specifications *)

UpdateCall ==
  \E series \in InputSeries :
    /\ series = <<>> \/ state.epoch < MaxEpoch
    /\ Update(series)

SignalCall == Query("signal", Signal(state))

ValueCall == Query("value", Value(state))

InOverboughtCall == Query("in_overbought", InOverbought(state))

InOversoldCall == Query("in_oversold", InOversold(state))

Next == UpdateCall \/ SignalCall \/ ValueCall \/ InOverboughtCall \/ InOversoldCall

Spec == Init /\ [][Next]_vars

\* long runs of updates, for the phase to wrap
LongRunUpdateCall ==
  \E series \in PhaseInputs :
    /\ series = <<>> \/ state.epoch < MaxPhaseEpoch
    /\ Update(series)

NextPhaseRun ==
  LongRunUpdateCall \/ SignalCall \/ ValueCall \/ InOverboughtCall \/ InOversoldCall

SpecPhase == Init /\ [][NextPhaseRun]_vars

\* _smooth_series alone, on every short series and window
NextSmooth == \E series \in SmoothInputs, n \in -1..MaxWindow : Smooth(series, n)

SpecSmooth == Init /\ [][NextSmooth]_vars

----------------------------------------------------------------------------
(* Properties *)

NonEmptyUpdate(c) == c.op = "update" /\ c.arg # <<>>

EmptyUpdate(c) == c.op = "update" /\ c.arg = <<>>

IsQuery(c) == c.op \in {"signal", "value", "in_overbought", "in_oversold"}

EngineUnchanged == state' = state /\ prev_value' = prev_value /\ history' = history

\* C1. Boundedness: in every reachable state the value lies within the
\* configured bands, lower <= value <= upper, and so does every value an
\* update has produced (the history) and every state an update has returned.
Boundedness ==
  /\ Config.lower <= state.value /\ state.value <= Config.upper
  /\ \A i \in DOMAIN history : Config.lower <= history[i] /\ history[i] <= Config.upper
  /\ call.op = "update" => (Config.lower <= call.ret.value /\ call.ret.value <= Config.upper)

\* a second non-empty update has produced a value other than the neutral 50.0
BoundednessWitness ==
  NonEmptyUpdate(call) /\ state.epoch = 2 /\ state.value # 5000 /\ history[1] # 5000

\* C2. Empty-input no-op: an update with an empty series returns the current
\* state and leaves the state, the previous-value tracker and the history
\* exactly as they were.
EmptyNoOp ==
  [][ EmptyUpdate(call') => (EngineUnchanged /\ call'.ret = state) ]_vars

\* an empty update made on an engine that two updates have moved off its defaults
EmptyNoOpWitness ==
  EmptyUpdate(call) /\ state.epoch = 2 /\ state.value # 5000 /\ call.ret = state

EpochStep ==
  IF NonEmptyUpdate(call')
  THEN state'.epoch = state.epoch + 1
  ELSE state'.epoch = state.epoch

\* C3. Monotone epoch: epoch starts at 0, every update with a non-empty series
\* adds exactly 1 to it, and every other call (an empty update, a query)
\* leaves it as it was.
MonotoneEpoch == (state.epoch = 0) /\ [][EpochStep]_vars

\* a query made after two non-empty updates finds epoch 2
MonotoneEpochWitness == IsQuery(call) /\ state.epoch = 2 /\ Len(history) = 2

\* the signal the claim gives for consecutive values v1 then v2 (4.4 is 440 centi)
ClaimedSignal(v1, v2) ==
  IF v2 - v1 >= 440 THEN 1 ELSE IF v1 - v2 >= 440 THEN -1 ELSE 0

\* C4. Crossover determinism: a non-empty update that takes the value from v1
\* (50.0 on a fresh engine) to v2 sets the signal to +1 iff v2 - v1 >= 4.4,
\* to -1 iff v1 - v2 >= 4.4 and to 0 otherwise; the signal is always -1, 0 or +1.
CrossoverDeterminism ==
  /\ [](state.crossover_signal \in {-1, 0, 1})
  /\ [][ NonEmptyUpdate(call') =>
           state'.crossover_signal = ClaimedSignal(state.value, state'.value) ]_vars

\* two consecutive updates off the default, the second a fall of at least 4.4
CrossoverWitness ==
  /\ NonEmptyUpdate(call) /\ state.epoch = 2
  /\ history[1] # 5000 /\ history[1] - history[2] >= 440
  /\ state.crossover_signal = -1

\* C5. Insufficient-history neutrality: a non-empty series shorter than the
\* period gives kappa = vexel = 50.0 and the value 50.0 exactly, and counts as
\* an update (epoch + 1); the demo series on a fresh engine gives value 50.0
\* and epoch 1.
InsufficientHistory ==
  [][ /\ (NonEmptyUpdate(call') /\ Len(call'.arg) < Config.period) =>
           /\ state'.value = 5000
           /\ state'.epoch = state.epoch + 1
           /\ call'.ret.value = 5000
           /\ KappaComponent(SmoothSeries(call'.arg, Config.smooth), Config.phase_rad) = 5000
           /\ VexelComponent(SmoothSeries(call'.arg, Config.smooth)) = 5000
      /\ (NonEmptyUpdate(call') /\ call'.arg = DEMO_SERIES /\ state = TrendState) =>
           (state'.value = 5000 /\ state'.epoch = 1) ]_vars

\* a series one short of the period, fed to an engine whose value was not 50.0
InsufficientHistoryWitness ==
  /\ NonEmptyUpdate(call) /\ Len(call.arg) = Config.period - 1
  /\ state.epoch = 2 /\ history[1] # 5000 /\ state.value = 5000

\* C6. Phase wraps: after k non-empty updates the phase is (k * phaseRad) mod 2*pi,
\* and it lies in [0, 2*pi).
PhaseWraps ==
  /\ state.phase = (state.epoch * Config.phase_rad) % TWO_PI
  /\ 0 <= state.phase /\ state.phase < TWO_PI

\* the sixteenth update has taken the phase past 2*pi and back to 0.3216
PhaseWrapsWitness ==
  state.epoch = 16 /\ state.phase = 3216 /\ state.phase < Config.phase_rad

RECURSIVE RangeSum(_, _, _)
RangeSum(s, lo, hi) == IF lo > hi THEN 0 ELSE s[hi] + RangeSum(s, lo, hi - 1)

\* x is total / cnt to the nearest unit
IsMean(x, total, cnt) == 2 * Abs(x * cnt - total) <= cnt

\* C7. Smoothing: the result is as long as the input; for n < 1 or n > len it
\* is the input itself; otherwise element i is the mean of the input's
\* elements max(first, i-n+1) .. i.
SmoothingContract ==
  call.op = "_smooth_series" =>
    LET s == call.arg
        n == call.n
        out == call.ret
    IN /\ Len(out) = Len(s)
       /\ (n < 1 \/ n > Len(s)) => out = s
       /\ (n >= 1 /\ n <= Len(s)) =>
            \A i \in 1..Len(s) :
              LET lo == IF i - n + 1 > 1 THEN i - n + 1 ELSE 1
              IN IsMean(out[i], RangeSum(s, lo, i), i - lo + 1)

\* a window of 3 over four elements: the window grows, then slides
SmoothingWitness ==
  /\ call.op = "_smooth_series" /\ call.n = 3 /\ Len(call.arg) = 4
  /\ call.ret # call.arg /\ call.ret[1] = call.arg[1] /\ call.ret[4] # call.arg[4]

\* 10% of the range between the fixed band constants: 7.46
FixedMargin == (UPPER_BAND - LOWER_BAND) \div 10

\* C8. Band queries: in_overbought() is value >= upper - 0.1 * (UPPER_BAND - LOWER_BAND),
\* in_oversold() is value <= lower + 0.1 * (UPPER_BAND - LOWER_BAND), signal() and
\* value() return their fields, and no query changes the engine.
BandQueries ==
  [][ /\ IsQuery(call') => EngineUnchanged
      /\ call'.op = "in_overbought" => call'.ret = (state.value >= Config.upper - FixedMargin)
      /\ call'.op = "in_oversold" => call'.ret = (state.value <= Config.lower + FixedMargin)
      /\ call'.op = "signal" => call'.ret = state.crossover_signal
      /\ call'.op = "value" => call'.ret = state.value ]_vars

\* in_overbought() asked at the highest value the inputs produce
BandQueriesWitness ==
  /\ call.op = "in_overbought" /\ call.ret = FALSE
  /\ state.value > 6500 /\ state.epoch = 2

\* C9. History independence of the value: the value a non-empty update
\* produces is the value a fresh engine produces from the same series,
\* whatever updates came before.
HistoryIndependence ==
  NonEmptyUpdate(call) => state.value = NewValue(TrendState, call.arg)

\* a long series fed to an engine that an earlier, different update has moved
HistoryIndependenceWitness ==
  /\ NonEmptyUpdate(call) /\ Len(call.arg) >= Config.period
  /\ state.epoch = 2 /\ history[1] # 5000 /\ history[1] # history[2]
  /\ state.phase = 2 * Config.phase_rad

TrackerStep ==
  IF NonEmptyUpdate(call')
  THEN /\ history' = Append(history, state'.value)
       /\ state'.momentum = state'.value - state.value
  ELSE history' = history /\ prev_value' = prev_value /\ state' = state

\* C10. Tracker/history consistency: the previous-value tracker equals the
\* state's value, the history is as long as the epoch and ends with the
\* state's value; a non-empty update appends its value to the history and sets
\* momentum to the new value minus the old one, and nothing else touches them.
TrackerConsistency ==
  /\ [](/\ prev_value = state.value
        /\ Len(history) = state.epoch
        /\ state.epoch > 0 => history[Len(history)] = state.value)
  /\ [][TrackerStep]_vars

\* a query after two updates, the second of which moved the value
TrackerConsistencyWitness ==
  /\ IsQuery(call) /\ state.epoch = 2 /\ history[1] # 5000
  /\ state.momentum = history[2] - history[1] /\ state.momentum # 0

====
